---- MODULE Spec2Model ----
(***************************************************************************)
(* Model of paperscraper.scraper.Scraper: the registry of scraper          *)
(* functions (register_scraper), the per-paper fallback run (scrape) and   *)
(* the windowed batch driver (batch_scrape).                               *)
(*                                                                         *)
(* asyncio is cooperative: a coroutine runs without interruption from one  *)
(* await to the next, so every action below is the code executed between   *)
(* two suspension points of one coroutine.                                 *)
(***************************************************************************)
EXTENDS Integers, Sequences, FiniteSets, TLC

\* ---------------------------------------------------------------- bounds
MaxScrapers == 2        \* register_scraper calls before a single scrape()
MaxIndex == 2           \* scrape(i=...) is drawn from 0..MaxIndex
MaxPapers == 2          \* len(papers) is drawn from 0..MaxPapers
MaxLimit == 1           \* limit is None (<<>>) or <<L>> with L in 0..MaxLimit
MaxCloses == 2          \* close() calls on one registry

\* ------------------------------------------------------ input domains
DefaultPriority == 10                      \* priority: int = 10
Priorities == {5, DefaultPriority}
Names == {"a", "b"}
Functions == <<"a_scraper", "b_scraper">>  \* registered with default arguments
PaperIds == {"p", "q"}
BatchSizes == {1, 2}
None == "None"

VARIABLES
    scrapers,          \* self.scrapers
    sorted_scrapers,   \* self.sorted_scrapers
    callback,          \* self.callback: None or "set"
    registered,        \* history: the ScraperFunction objects, in call order
    sessions,          \* the ThrottledClientSession objects made at line 47,
                       \* by the id of their ScraperFunction: "open", "closed"
    cpc,               \* close(): 0 when not running, else the position in
                       \* self.scrapers of the session whose close() it awaits
    closes,            \* history: close() calls that have returned
    reg_call,          \* history: the last register_scraper call, as written
                       \* by the caller (n counts the calls)
    raised,            \* history: the exception that call ended with, or None
    phase,             \* "setup", then "scrape" or "batch"
    tasks,             \* the scrape() coroutines, by slot
    papers,            \* batch_scrape argument
    batch_size,        \* batch_scrape argument
    limit,             \* batch_scrape argument: <<>> for None, else <<L>>
    paper_parser,      \* batch_scrape argument: None or "set"
    win,               \* batch_scrape: the loop variable i (window start)
    aggregated,        \* batch_scrape: the result dict, path -> parsed paper
    bpc,               \* batch_scrape: "idle", "gather", "returned", "raised"
    launched,          \* history: global positions scrape_parse was started for
    sizes              \* history: len(aggregated) at the end of each window

vars == <<scrapers, sorted_scrapers, callback, registered, sessions, cpc,
          closes, reg_call, raised, phase, tasks,
          papers, batch_size, limit, paper_parser, win, aggregated, bpc,
          launched, sizes>>

registryVars == <<scrapers, sorted_scrapers, registered, sessions, cpc,
                  closes, reg_call, raised>>
batchVars == <<papers, batch_size, limit, paper_parser, win, aggregated, bpc,
               launched, sizes>>

\* ------------------------------------------------------- ScraperFunction
\* id stands for the identity of the object: two ScraperFunction objects
\* with equal fields are still two entries of self.scrapers.
ScraperFunction(id, function, priority, kwargs, name, check_pdf) ==
    [id |-> id, function |-> function, priority |-> priority,
     kwargs |-> kwargs, name |-> name, check_pdf |-> check_pdf]

NoScraper == ScraperFunction(0, "", 0, {}, "", FALSE)

\* -------------------------------------------------------- list helpers
RECURSIVE InsertDesc(_, _)
\* one step of a stable descending sort: x goes behind every element whose
\* priority is >= its own
InsertDesc(s, x) ==
    IF s = <<>> THEN <<x>>
    ELSE IF Head(s).priority >= x.priority
         THEN <<Head(s)>> \o InsertDesc(Tail(s), x)
         ELSE <<x>> \o s

RECURSIVE SortDesc(_)
\* list.sort(key=priority, reverse=True): stable
SortDesc(s) ==
    IF s = <<>> THEN <<>>
    ELSE InsertDesc(SortDesc(SubSeq(s, 1, Len(s) - 1)), s[Len(s)])

RECURSIVE SortedSet(_)
\* sorted(set of ints): ascending
SortedSet(S) ==
    IF S = {} THEN <<>>
    ELSE LET m == CHOOSE x \in S : \A y \in S : x <= y
         IN <<m>> \o SortedSet(S \ {m})

RECURSIVE FilterAtLeast(_, _)
\* Filter with the tier test written >= instead of ==
FilterAtLeast(s, p) ==
    IF s = <<>> THEN <<>>
    ELSE IF Head(s).priority >= p
         THEN <<Head(s)>> \o FilterAtLeast(Tail(s), p)
         ELSE FilterAtLeast(Tail(s), p)

RECURSIVE Filter(_, _)
\* [s for s in seq if s.priority == p]
Filter(s, p) ==
    IF s = <<>> THEN <<>>
    ELSE IF Head(s).priority = p
         THEN <<Head(s)>> \o Filter(Tail(s), p)
         ELSE Filter(Tail(s), p)

Reshape(s) ==
    LET prios == SortedSet({s[k].priority : k \in 1..Len(s)})
    IN [k \in 1..Len(prios) |-> Filter(s, prios[k])]

Reversed(s) == [k \in 1..Len(s) |-> s[Len(s) + 1 - k]]

\* ------------------------------------------------------------- Init
Init ==
    /\ scrapers = <<>>
    /\ sorted_scrapers = <<>>
    /\ callback \in {None, "set"}
    /\ registered = <<>>
    /\ sessions = <<>>
    /\ cpc = 0
    /\ closes = 0
    /\ reg_call = [n |-> 0, func |-> None, priority |-> FALSE, name |-> None]
    /\ raised = None
    /\ phase = "setup"
    /\ tasks = <<>>
    /\ papers = <<>>
    /\ batch_size = 0
    /\ limit = <<>>
    /\ paper_parser = None
    /\ win = 0
    /\ aggregated = <<>>
    /\ bpc = "idle"
    /\ launched = {}
    /\ sizes = <<>>

\* ------------------------------------------------- register_scraper
\* DefaultName without the replace: func.__name__
DefaultNameWhole(func) == func

\* func.__name__.replace("_scraper", "")
DefaultName(func) ==
    CASE func = "a_scraper" -> "a"
      [] func = "b_scraper" -> "b"
      [] OTHER -> func

\* the call as the caller wrote it: the function (None when the caller has
\* none to give), whether a priority was given, and the name (None when not)
Called(func, has_priority, name) ==
    reg_call' = [n |-> reg_call.n + 1, func |-> func,
                 priority |-> has_priority, name |-> name]

register_scraper(func, attach_session, priority, name, check) ==
    LET kwargs == IF attach_session THEN {"session"} ELSE {}
        nm == IF name = None THEN DefaultName(func) ELSE name
        id == Len(registered) + 1
        sf == ScraperFunction(id, func, priority, kwargs, nm, check)
        sorted == SortDesc(Append(scrapers, sf))
    IN /\ phase = "setup"
       /\ cpc = 0
       /\ IF name = None /\ func = None
          THEN \* line 45: None has no __name__
               /\ raised' = "AttributeError"
               /\ UNCHANGED <<scrapers, sorted_scrapers, registered, sessions>>
          ELSE /\ raised' = None
               /\ scrapers' = sorted
               /\ sorted_scrapers' = Reshape(sorted)
               /\ registered' = Append(registered, sf)
               /\ sessions' = IF attach_session
                              THEN [x \in DOMAIN sessions \cup {id} |->
                                       IF x = id THEN "open" ELSE sessions[x]]
                              ELSE sessions
       /\ UNCHANGED <<callback, phase, tasks, cpc, closes>>
       /\ UNCHANGED batchVars

Register ==
    /\ Len(registered) < MaxScrapers
    /\ \E priority \in Priorities, name \in Names, check \in BOOLEAN :
          /\ Called("a_scraper", TRUE, name)
          /\ register_scraper("a_scraper", FALSE, priority, name, check)

\* ------------------------------------------------------------ scrape
\* A scrape() coroutine is a record:
\*   pc             where it is suspended: "fetching" (line 83, the strategy
\*                  is running), "fetched" (line 83, the strategy has finished
\*                  and the coroutine is ready to resume), "succ_cb" (line 93),
\*                  "tier_cb" (line 100), "done"
\*   paper, path, i the arguments
\*   t, j           the loop positions of lines 79 and 80 (t counts from 1)
\*   scrape_result  the dict of line 78
\*   scraper        the loop variable of line 81
\*   result         how the strategy awaited last finished: "true", "false",
\*                  "raise"; None while a strategy is running
\*   artifact       what check_pdf(path) finds after it: "valid", "invalid",
\*                  or "unreadable" (check_pdf raises); "n/a" when check_pdf
\*                  is not called
\*   ret            "true", "false", or "raised" (an exception left scrape)
\*   sp, parsed     the enclosing scrape_parse() of batch_scrape, if any:
\*                  "running" (inside scrape), "parsing" (line 143, awaiting
\*                  the parser), "entry" (returned (path, parsed)), "false"
\*                  (returned False), "raised"
\*   calls, marks, cbs, truthy, ended   history: the strategies invoked,
\*                  the strategies marked success, the callback invocations,
\*                  whether some strategy returned a truthy value, and the
\*                  number of strategy invocations that have finished
\* Plan without the [::-1] of line 79
PlanAscending == sorted_scrapers

\* self.sorted_scrapers[::-1]
Plan == Reversed(sorted_scrapers)

\* VisitAt with the rotation index dropped: scrapers[j]
VisitAtUnrotated(tier, i, j) == tier[(j % Len(tier)) + 1]

VisitAt(tier, i, j) == tier[((i + j) % Len(tier)) + 1]

\* Invoke with every strategy of the tier started at once
InvokeTier(task) ==
    LET sc == VisitAt(Plan[task.t], task.i, task.j)
    IN [task EXCEPT !.pc = "fetching", !.scraper = sc, !.result = None,
                    !.artifact = None,
                    !.calls = @ \o [k \in 1..Len(Plan[task.t]) |->
                                      Plan[task.t][k].id]]

\* lines 81-83: the next strategy is picked and awaited
Invoke(task) ==
    LET sc == VisitAt(Plan[task.t], task.i, task.j)
    IN [task EXCEPT !.pc = "fetching", !.scraper = sc, !.result = None,
                    !.artifact = None, !.calls = Append(@, sc.id)]

\* top of the loop of line 79 with t already set
EnterTier(task) ==
    IF task.t > Len(Plan)
    THEN [task EXCEPT !.pc = "done", !.ret = "false"]
    ELSE Invoke(task)

CallbackCall(task, kind) ==
    [task EXCEPT !.pc = kind,
                 !.cbs = Append(@, [kind |-> kind, t |-> task.t,
                                    outcomes |-> task.scrape_result])]

\* the second argument of the callback call c of a run, as the callback's
\* owner sees it at any later time: lines 93 and 100 pass the dict of line
\* 78 itself, not a copy
Received(task, c) == task.scrape_result

\* line 98 and the loop steps that follow it, up to the next await
MarkFailed(task) ==
    LET marked == [task EXCEPT !.scrape_result[task.scraper.name] = "failed"]
    IN IF task.j + 1 < Len(Plan[task.t])
       THEN Invoke([marked EXCEPT !.j = task.j + 1])
       ELSE IF callback # None
            THEN CallbackCall(marked, "tier_cb")
            ELSE EnterTier([marked EXCEPT !.t = task.t + 1, !.j = 0])

\* Succeeded without the check_pdf test of line 85
SucceededUnchecked(task) == task.result = "true"

\* lines 84-86
Succeeded(task) ==
    /\ task.result = "true"
    /\ (~task.scraper.check_pdf \/ task.artifact = "valid")

\* lines 87-94
MarkSuccess(task) ==
    LET marked == [task EXCEPT !.scrape_result[task.scraper.name] = "success",
                               !.marks = Append(@, task.scraper.id)]
    IN IF callback # None
       THEN CallbackCall(marked, "succ_cb")
       ELSE [marked EXCEPT !.pc = "done", !.ret = "true"]

\* ResumeFetch without the except clause of line 95
ResumeFetchUncaught(task) ==
    IF Succeeded(task) THEN MarkSuccess(task)
    ELSE IF task.result = "raise" \/ task.artifact = "unreadable"
         THEN [task EXCEPT !.pc = "done", !.ret = "raised"]
         ELSE MarkFailed(task)

\* the coroutine resumes from the await of line 83: lines 84-98
ResumeFetch(task) ==
    IF Succeeded(task) THEN MarkSuccess(task)
    ELSE MarkFailed(task)

\* the coroutine resumes from the await of line 93
ResumeSuccessCallback(task, raises) ==
    IF raises
    THEN MarkFailed(task)
    ELSE [task EXCEPT !.pc = "done", !.ret = "true"]

\* the coroutine resumes from the await of line 100
ResumeTierCallback(task, raises) ==
    IF raises
    THEN [task EXCEPT !.pc = "done", !.ret = "raised"]
    ELSE EnterTier([task EXCEPT !.t = task.t + 1, !.j = 0])

\* StartScrape with the dict of line 78 built from the top tier only
StartScrapeTopTier(paper, path, i) ==
    EnterTier([pc |-> "start", paper |-> paper, path |-> path, i |-> i,
               t |-> 1, j |-> 0,
               scrape_result |->
                   [n \in IF Plan = <<>> THEN {}
                          ELSE {Plan[1][k].name : k \in 1..Len(Plan[1])}
                       |-> "none"],
               scraper |-> NoScraper, result |-> None, artifact |-> None,
               ret |-> None, sp |-> None, parsed |-> None, ended |-> 0,
               calls |-> <<>>, marks |-> <<>>, cbs |-> <<>>, truthy |-> FALSE])

\* scrape(paper, path, i) up to its first await
StartScrape(paper, path, i) ==
    EnterTier([pc |-> "start", paper |-> paper, path |-> path, i |-> i,
               t |-> 1, j |-> 0,
               scrape_result |->
                   [n \in {scrapers[k].name : k \in 1..Len(scrapers)} |-> "none"],
               scraper |-> NoScraper, result |-> None, artifact |-> None,
               ret |-> None, sp |-> None, parsed |-> None, ended |-> 0,
               calls |-> <<>>, marks |-> <<>>, cbs |-> <<>>, truthy |-> FALSE])

\* os.path.join(paper_file_dump_dir, f'{paper["paperId"]}.pdf')
PathOf(paper) == <<"dir", paper.paperId, ".pdf">>

Paper(id, title) == [paperId |-> id, title |-> title]

\* scrape_parse from the return of scrape to its next await or its return
ScrapeParse(task) ==
    IF task.sp # "running" \/ task.pc # "done" THEN task
    ELSE IF task.ret = "raised" THEN [task EXCEPT !.sp = "raised"]
    ELSE IF task.ret = "false" THEN [task EXCEPT !.sp = "false"]
    ELSE IF paper_parser = None
         THEN [task EXCEPT !.sp = "entry", !.parsed = task.paper]
         ELSE [task EXCEPT !.sp = "parsing"]

\* scrape_parse(paper, i) up to its first await
StartScrapeParse(paper, i) ==
    ScrapeParse([StartScrape(paper, PathOf(paper), i) EXCEPT !.sp = "running"])

\* a caller awaits scrape(paper, path, i) directly
Scrape ==
    /\ phase = "setup"
    /\ phase' = "scrape"
    /\ \E i \in 0..MaxIndex :
          LET paper == Paper("p", 1)
          IN tasks' = <<StartScrape(paper, PathOf(paper), i)>>
    /\ UNCHANGED <<callback>>
    /\ UNCHANGED registryVars
    /\ UNCHANGED batchVars

\* the strategy awaited at line 83 finishes
FetchCompletes(s) ==
    /\ s \in DOMAIN tasks
    /\ tasks[s].pc = "fetching"
    /\ \E result \in {"true", "false", "raise"},
          artifact \in {"valid", "invalid", "unreadable"} :
          /\ (result # "true" \/ ~tasks[s].scraper.check_pdf) => artifact = "valid"
          /\ tasks' = [tasks EXCEPT ![s] =
                 [@ EXCEPT !.pc = "fetched", !.result = result,
                           !.artifact = IF result = "true" /\ tasks[s].scraper.check_pdf
                                        THEN artifact ELSE "n/a",
                           !.truthy = @ \/ result = "true",
                           !.ended = @ + 1]]
    /\ UNCHANGED <<callback, phase>>
    /\ UNCHANGED registryVars
    /\ UNCHANGED batchVars

FetchResumes(s) ==
    /\ s \in DOMAIN tasks
    /\ tasks[s].pc = "fetched"
    /\ tasks' = [tasks EXCEPT ![s] = ScrapeParse(ResumeFetch(@))]
    /\ UNCHANGED <<callback, phase>>
    /\ UNCHANGED registryVars
    /\ UNCHANGED batchVars

SuccessCallbackEnds(s) ==
    /\ s \in DOMAIN tasks
    /\ tasks[s].pc = "succ_cb"
    /\ \E raises \in BOOLEAN :
          tasks' = [tasks EXCEPT ![s] =
                      ScrapeParse(ResumeSuccessCallback(@, raises))]
    /\ UNCHANGED <<callback, phase>>
    /\ UNCHANGED registryVars
    /\ UNCHANGED batchVars

TierCallbackEnds(s) ==
    /\ s \in DOMAIN tasks
    /\ tasks[s].pc = "tier_cb"
    /\ \E raises \in BOOLEAN :
          tasks' = [tasks EXCEPT ![s] =
                      ScrapeParse(ResumeTierCallback(@, raises))]
    /\ UNCHANGED <<callback, phase>>
    /\ UNCHANGED registryVars
    /\ UNCHANGED batchVars

\* ------------------------------------------------------ batch_scrape
Min(a, b) == IF a < b THEN a ELSE b

Put(d, k, v) == [x \in DOMAIN d \cup {k} |-> IF x = k THEN v ELSE d[x]]

RECURSIVE MergeAll(_, _)
\* Merge without the filter of line 155
MergeAll(d, ts) ==
    IF ts = <<>> THEN d
    ELSE MergeAll(Put(d, Head(ts).path, Head(ts).parsed), Tail(ts))

RECURSIVE Merge(_, _)
\* aggregated |= {r[0]: r[1] for r in results if r is not False}
Merge(d, ts) ==
    IF ts = <<>> THEN d
    ELSE Merge(IF Head(ts).sp = "entry"
               THEN Put(d, Head(ts).path, Head(ts).parsed) ELSE d,
               Tail(ts))

\* Window with the offset inside the window as the rotation index: i=j
WindowLocal(ps, size, i) ==
    [j \in 1..Min(size, Len(ps) - i) |-> StartScrapeParse(ps[i + j], j - 1)]

\* the generator of lines 150-153 handed to gather, for the window at i
Window(ps, size, i) ==
    [j \in 1..Min(size, Len(ps) - i) |-> StartScrapeParse(ps[i + j], i + j - 1)]

\* register_scraper(func) with every optional argument at its default
RegisterDefault ==
    /\ Len(registered) < Len(Functions)
    /\ Called(Functions[Len(registered) + 1], FALSE, None)
    /\ register_scraper(Functions[Len(registered) + 1], FALSE, DefaultPriority,
                        None, TRUE)

PaperSeqs(n) == [1..n -> PaperIds]

\* a caller awaits batch_scrape(papers, dir, paper_parser, batch_size, limit)
BatchScrape ==
    /\ phase = "setup"
    /\ phase' = "batch"
    /\ UNCHANGED <<callback>>
    /\ UNCHANGED registryVars
    /\ \E n \in 0..MaxPapers, size \in BatchSizes,
          lim \in {<<>>} \cup {<<l>> : l \in 0..MaxLimit}, parser \in {None, "set"} :
        \E ids \in PaperSeqs(n) :
          LET ps == [k \in 1..n |-> Paper(ids[k], k)]
          IN /\ papers' = ps
             /\ batch_size' = size
             /\ limit' = lim
             /\ paper_parser' = parser
             /\ win' = 0
             /\ aggregated' = <<>>
             /\ sizes' = <<>>
             /\ IF n = 0
                THEN /\ bpc' = "returned"
                     /\ tasks' = <<>>
                     /\ launched' = {}
                ELSE /\ bpc' = "gather"
                     /\ tasks' = Window(ps, size, 0)'
                     /\ launched' = 0..(Min(size, n) - 1)

\* the parser awaited at line 143 returns or raises
ParserEnds(s) ==
    /\ s \in DOMAIN tasks
    /\ tasks[s].sp = "parsing"
    /\ \E raises \in BOOLEAN :
          tasks' = [tasks EXCEPT ![s] =
                      IF raises THEN [@ EXCEPT !.sp = "raised"]
                      ELSE [@ EXCEPT !.sp = "entry",
                                     !.parsed = <<"parsed", tasks[s].paper>>]]
    /\ UNCHANGED <<callback, phase>>
    /\ UNCHANGED registryVars
    /\ UNCHANGED batchVars

\* LimitReached with the test of line 157 left out
LimitNotTested(size) == FALSE

\* LimitReached with > written for >=
LimitExceeded(size) == limit # <<>> /\ size > limit[1]

\* line 157
LimitReached(size) == limit # <<>> /\ size >= limit[1]

\* WindowDone with the results taken as soon as one scrape_parse has returned
WindowAnyDone == \E s \in DOMAIN tasks : tasks[s].sp \in {"entry", "false"}

\* await asyncio.gather(...) of line 149 returns: every scrape_parse of the
\* window has returned
WindowDone == \A s \in DOMAIN tasks : tasks[s].sp \in {"entry", "false"}

\* gather hands the results of the window to line 147; lines 147-159
GatherReturns ==
    /\ bpc = "gather"
    /\ WindowDone
    /\ LET agg == Merge(aggregated, tasks)
           size == Cardinality(DOMAIN agg)
           i == win + batch_size
       IN /\ aggregated' = agg
          /\ sizes' = Append(sizes, size)
          /\ IF LimitReached(size) \/ i >= Len(papers)
             THEN /\ bpc' = "returned"
                  /\ UNCHANGED <<win, tasks, launched>>
             ELSE /\ bpc' = "gather"
                  /\ win' = i
                  /\ tasks' = Window(papers, batch_size, i)
                  /\ launched' = launched \cup
                         i..(i + Min(batch_size, Len(papers) - i) - 1)
    /\ UNCHANGED <<callback, phase, papers, batch_size, limit, paper_parser>>
    /\ UNCHANGED registryVars

\* gather propagates the first exception of the window out of line 149,
\* and batch_scrape does not catch it; the other tasks are not cancelled
GatherRaises ==
    /\ bpc = "gather"
    /\ \E s \in DOMAIN tasks : tasks[s].sp = "raised"
    /\ bpc' = "raised"
    /\ UNCHANGED <<callback, phase, tasks, papers, batch_size, limit,
                   paper_parser, win, aggregated, launched, sizes>>
    /\ UNCHANGED registryVars

\* ------------------------------------------------------------- close
\* line 163
HasSession(sf) == "session" \in sf.kwargs

\* NextSession with the loop left at the first scraper without a session
NextSessionUntilBare(k) ==
    IF k > Len(scrapers) THEN 0
    ELSE IF HasSession(scrapers[k]) THEN k
    ELSE 0

RECURSIVE NextSession(_)
\* the loop of lines 162-163 from position k on: the position of the next
\* scraper that has a session, 0 when the loop ends
NextSession(k) ==
    IF k > Len(scrapers) THEN 0
    ELSE IF HasSession(scrapers[k]) THEN k
    ELSE NextSession(k + 1)

\* ThrottledClientSession.close(): the handle is released, whatever its state
SessionClose(state) == "closed"

\* close() from position k of the loop to its next await or its return
CloseFrom(k) ==
    /\ cpc' = NextSession(k)
    /\ closes' = IF NextSession(k) = 0 THEN closes + 1 ELSE closes

\* a caller awaits close()
Close ==
    /\ phase \in {"setup", "closing"}
    /\ cpc = 0
    /\ closes < MaxCloses
    /\ phase' = "closing"
    /\ CloseFrom(1)
    /\ UNCHANGED <<scrapers, sorted_scrapers, registered, sessions, reg_call,
                   raised, callback, tasks>>
    /\ UNCHANGED batchVars

\* the session close() awaited at line 164 returns
SessionCloseEnds ==
    /\ cpc > 0
    /\ sessions' = [sessions EXCEPT ![scrapers[cpc].id] = SessionClose(@)]
    /\ CloseFrom(cpc + 1)
    /\ UNCHANGED <<scrapers, sorted_scrapers, registered, reg_call, raised,
                   callback, phase, tasks>>
    /\ UNCHANGED batchVars

\* register_scraper called with any of its arguments given or left out
RegisterAny ==
    /\ reg_call.n < MaxScrapers
    /\ \E func \in {"a_scraper", None}, attach_session \in BOOLEAN,
          given \in BOOLEAN, priority \in Priorities, name \in {"a", None} :
          /\ ~given => priority = DefaultPriority
          /\ Called(func, given, name)
          /\ register_scraper(func, attach_session, priority, name, TRUE)

Next ==
    \/ Register
    \/ Scrape
    \/ FetchCompletes(1)
    \/ FetchResumes(1)
    \/ SuccessCallbackEnds(1)
    \/ TierCallbackEnds(1)

Spec == Init /\ [][Next]_vars

NextBatch ==
    \/ RegisterDefault
    \/ BatchScrape
    \/ \E s \in BatchSizes :
          \/ FetchCompletes(s)
          \/ FetchResumes(s)
          \/ SuccessCallbackEnds(s)
          \/ TierCallbackEnds(s)
          \/ ParserEnds(s)
    \/ GatherReturns
    \/ GatherRaises

SpecBatch == Init /\ [][NextBatch]_vars

NextRegistry ==
    \/ RegisterAny
    \/ Close
    \/ SessionCloseEnds

SpecRegistry == Init /\ [][NextRegistry]_vars

\* ---------------------------------------------------------- properties
Tasks == {tasks[s] : s \in DOMAIN tasks}

Running(task) == task.pc \in {"fetching", "fetched", "succ_cb", "tier_cb"}

RECURSIVE SumLen(_)
SumLen(ss) == IF ss = <<>> THEN 0 ELSE Len(Head(ss)) + SumLen(Tail(ss))

\* C1: in a run at most one strategy is ever marked success, and a strategy
\* that was marked success is the last one the run invokes.
C1_AtMostOneSuccess ==
    \A task \in Tasks :
        /\ Len(task.marks) <= 1
        /\ task.marks # <<>> => task.calls[Len(task.calls)] = task.marks[1]

\* C2: a run invokes a strategy only after it has invoked every registered
\* strategy of strictly higher priority, whatever the order of registration.
C2_TiersDescending ==
    \A task \in Tasks :
        \A k \in 1..Len(task.calls) :
            \A r \in 1..Len(registered) :
                registered[r].priority > registered[task.calls[k]].priority
                    => \E m \in 1..(k - 1) : task.calls[m] = r

\* a run has invoked a strategy of the lower tier, after registrations in
\* ascending priority (out of order for the plan)
C2_Witness ==
    \E task \in Tasks :
        /\ Len(registered) = 2
        /\ registered[1].priority < registered[2].priority
        /\ task.calls = <<2, 1>>

\* C3: in a tier of size n a run with rotation index i invokes the strategy
\* at position (i + offset) mod n for offset = 0, 1, ... in that order; the
\* order is the same for two indices congruent mod n, and the first strategy
\* differs for two indices that are not.
TierOrder(tier, r) == [o \in 1..Len(tier) |-> VisitAt(tier, r, o - 1).id]

C3_Rotation ==
    /\ \A task \in Tasks :
          Running(task) =>
              LET tier == sorted_scrapers[Len(sorted_scrapers) + 1 - task.t]
                  n == Len(tier)
                  L == Len(task.calls)
              IN /\ L >= task.j + 1
                 /\ \A o \in 0..task.j :
                       task.calls[L - task.j + o] =
                           tier[((task.i + o) % n) + 1].id
    /\ \A t \in DOMAIN sorted_scrapers :
          \A r1, r2 \in 0..MaxIndex :
              LET tier == sorted_scrapers[t]
                  n == Len(tier)
              IN IF r1 % n = r2 % n
                 THEN TierOrder(tier, r1) = TierOrder(tier, r2)
                 ELSE TierOrder(tier, r1)[1] # TierOrder(tier, r2)[1]

\* a run with rotation index 1 has wrapped around a tier of two strategies
C3_Witness ==
    \E task \in Tasks :
        /\ Running(task)
        /\ Len(sorted_scrapers[Len(sorted_scrapers) + 1 - task.t]) = 2
        /\ task.i = 1
        /\ task.j = 1
        /\ task.calls = <<2, 1>>

\* C4: the tiers of the plan hold exactly the registered strategies: their
\* sizes add up to the number of registrations, every registered strategy
\* is at exactly one place of the plan, and all strategies of a tier have
\* the same priority.
C4_PlanReflectsRegistry ==
    /\ SumLen(sorted_scrapers) = Len(registered)
    /\ \A r \in 1..Len(registered) :
          Cardinality({<<t, k>> \in (1..Len(sorted_scrapers)) \X (1..Len(registered)) :
                          /\ k <= Len(sorted_scrapers[t])
                          /\ sorted_scrapers[t][k] = registered[r]}) = 1
    /\ \A t \in DOMAIN sorted_scrapers :
          \A k1, k2 \in DOMAIN sorted_scrapers[t] :
              sorted_scrapers[t][k1].priority = sorted_scrapers[t][k2].priority
    /\ \A t1, t2 \in DOMAIN sorted_scrapers :
          t1 # t2 => sorted_scrapers[t1][1].priority # sorted_scrapers[t2][1].priority

\* two registrations with different priorities were re-sorted into two tiers
C4_Witness ==
    /\ Len(registered) = 2
    /\ registered[1].priority < registered[2].priority
    /\ Len(sorted_scrapers) = 2
    /\ scrapers = <<registered[2], registered[1]>>

\* the traversal goes on behind strategy a.scraper, which b marks failed
ContinuesAfterFailure(a, b) ==
    LET n == Len(Plan[a.t])
    IN /\ b.scrape_result[a.scraper.name] = "failed"
       /\ b.marks = a.marks
       /\ b.ret # "raised"
       /\ IF a.j + 1 < n
          THEN /\ b.pc = "fetching"
               /\ b.t = a.t
               /\ b.scraper = Plan[a.t][((a.i + a.j + 1) % n) + 1]
               /\ b.calls = Append(a.calls, b.scraper.id)
          ELSE IF callback # None
          THEN /\ b.pc = "tier_cb"
               /\ b.calls = a.calls
          ELSE IF a.t < Len(Plan)
          THEN /\ b.pc = "fetching"
               /\ b.t = a.t + 1
               /\ b.scraper = Plan[b.t][(a.i % Len(Plan[b.t])) + 1]
               /\ b.calls = Append(a.calls, b.scraper.id)
          ELSE /\ b.pc = "done"
               /\ b.ret = "false"

Resumed(s) ==
    /\ s \in DOMAIN tasks
    /\ s \in DOMAIN tasks'
    /\ tasks[s].pc = "fetched"
    /\ tasks'[s] # tasks[s]

\* C5: when the strategy awaited by a run raises, the run marks it failed
\* and goes on with the next strategy in tier order (or ends the tier); the
\* exception does not leave the run.
C5_FaultCaptured ==
    [][\A s \in DOMAIN tasks :
          (Resumed(s) /\ tasks[s].result = "raise")
              => ContinuesAfterFailure(tasks[s], tasks'[s])]_vars

\* a run returned false although the last strategy it awaited raised
C5_Witness ==
    \E task \in Tasks :
        /\ task.pc = "done"
        /\ task.result = "raise"
        /\ task.ret = "false"
        /\ task.scrape_result[task.scraper.name] = "failed"

\* C6: a run marks the strategy it awaited success exactly when the
\* strategy returned a truthy value and either its check_pdf flag is off or
\* the validator approved the destination; a truthy return whose artifact
\* fails validation is handled as a false return is (marked failed, the
\* traversal goes on); with a single validating strategy whose truthy return
\* fails validation the run never returns true, and when it returns, it
\* returns false with the map {strategy: failed}.
Approved(task) ==
    /\ task.result = "true"
    /\ task.scraper.check_pdf => task.artifact = "valid"

C7_Exhaustion ==
    \A task \in Tasks :
        ~task.truthy =>
            /\ \A c \in 1..Len(task.cbs) :
                  /\ task.cbs[c].kind = "tier_cb"
                  /\ \A k \in DOMAIN Plan[task.cbs[c].t] :
                        task.cbs[c].outcomes[Plan[task.cbs[c].t][k].name]
                            = "failed"
            /\ task.pc = "done" =>
                  /\ task.ret = "false"
                  /\ \A r \in 1..Len(registered) :
                        Cardinality({k \in 1..Len(task.calls) :
                                        task.calls[k] = r}) = 1
                  /\ \A n \in DOMAIN task.scrape_result :
                        task.scrape_result[n] # "none"

\* C8: a run that returns false after T tiers has called the callback T
\* times, once at the end of each tier; a run that returns true from the
\* k-th tier has called it k times, once at the end of each earlier tier
\* and once for the success.
C8_ReporterCalls ==
    \A task \in Tasks :
        (callback # None /\ task.pc = "done" /\ task.ret # "raised") =>
            LET n == Len(task.cbs)
            IN IF task.ret = "false"
               THEN /\ n = Len(Plan)
                    /\ \A c \in 1..n :
                          task.cbs[c].kind = "tier_cb" /\ task.cbs[c].t = c
               ELSE /\ n = task.t
                    /\ \A c \in 1..(n - 1) :
                          task.cbs[c].kind = "tier_cb" /\ task.cbs[c].t = c
                    /\ task.cbs[n].kind = "succ_cb"

\* C9: a run that has ended has returned true, with a strategy marked
\* success, or false, with every strategy invoked and none marked success.
C9_OneTerminalOutcome ==
    \A task \in Tasks :
        task.pc = "done" =>
            \/ /\ task.ret = "true"
               /\ task.scrape_result[task.scraper.name] = "success"
            \/ /\ task.ret = "false"
               /\ \A r \in 1..Len(registered) :
                     \E k \in 1..Len(task.calls) : task.calls[k] = r
               /\ \A n \in DOMAIN task.scrape_result :
                     task.scrape_result[n] # "success"

\* C10: with limit = L, once the result holds L or more entries at the end
\* of a window, batch_scrape returns and has started scrape for no record
\* behind that window; the result never has more entries than the windows
\* that have ended have records.
C10_LimitStopsWindows ==
    /\ \A k \in 1..Len(sizes) :
          (limit # <<>> /\ sizes[k] >= limit[1]) =>
              /\ k = Len(sizes)
              /\ bpc = "returned"
              /\ \A p \in launched : p < k * batch_size
    /\ Cardinality(DOMAIN aggregated) <= Len(sizes) * batch_size
    /\ Cardinality(DOMAIN aggregated) <= Cardinality(launched)

\* two records, batch_size 1, limit 1: the first window reached the limit
\* and the second record was never attempted
C10_Witness ==
    /\ Len(papers) = 2
    /\ batch_size = 1
    /\ limit = <<1>>
    /\ bpc = "returned"
    /\ sizes = <<1>>
    /\ launched = {0}

\* C11: batch_scrape never ends with an exception: whatever a record's
\* scrape or parser does, the batch goes on and returns.
C11_ErrorIsolated == bpc # "raised"

\* what the parser of lines 130-136 returns for a paper
Transformed(paper) ==
    IF paper_parser = None THEN paper ELSE <<"parsed", paper>>

WindowEnds == Len(sizes') = Len(sizes) + 1

\* C12: when a window ends, the result holds for every record of the window
\* whose scrape returned true the key <dir>/<paperId>.pdf with the parser's
\* value of the record (of the last such record of the window, when several
\* have the same paperId); every other key is as it was before the window,
\* and no key is new without a scrape that returned true; the parser is
\* never applied to a record whose scrape did not return true; the path
\* of a record depends on its paperId only.
C12_ResultEntries ==
    /\ [][WindowEnds =>
            /\ \A s \in DOMAIN tasks :
                  tasks[s].ret = "true" =>
                     LET key == <<"dir", tasks[s].paper.paperId, ".pdf">>
                         same == {x \in DOMAIN tasks :
                                    /\ tasks[x].ret = "true"
                                    /\ tasks[x].paper.paperId
                                          = tasks[s].paper.paperId}
                         last == CHOOSE x \in same : \A y \in same : y <= x
                     IN /\ key \in DOMAIN aggregated'
                        /\ aggregated'[key] = Transformed(tasks[last].paper)
            /\ \A key \in DOMAIN aggregated' :
                  \/ \E s \in DOMAIN tasks :
                        /\ tasks[s].ret = "true"
                        /\ key = <<"dir", tasks[s].paper.paperId, ".pdf">>
                  \/ /\ key \in DOMAIN aggregated
                     /\ aggregated'[key] = aggregated[key]]_vars
    /\ [](\A task \in Tasks :
             /\ task.ret # "true" =>
                   task.parsed = None /\ task.sp \notin {"parsing", "entry"}
             /\ task.sp # None =>
                   task.path = <<"dir", task.paper.paperId, ".pdf">>)
    /\ [](\A t1, t2 \in Tasks :
             t1.paper.paperId = t2.paper.paperId => t1.path = t2.path)

\* a window of two records ended with one scrape true and one false, and
\* the result holds the parser's value of the first under its path only
C12_Witness ==
    /\ bpc = "returned"
    /\ paper_parser = "set"
    /\ Len(tasks) = 2
    /\ tasks[1].ret = "true"
    /\ tasks[2].ret = "false"
    /\ tasks[1].paper.paperId # tasks[2].paper.paperId
    /\ DOMAIN aggregated = {tasks[1].path}
    /\ aggregated[tasks[1].path] = <<"parsed", papers[1]>>

\* C13 as stated: a register_scraper call that leaves out the name, the
\* priority or the function ends with ConfigurationError.
C13_MissingFieldRejected ==
    (/\ reg_call.n > 0
     /\ (reg_call.func = None \/ ~reg_call.priority \/ reg_call.name = None))
        => raised = "ConfigurationError"

RegisterStep == reg_call'.n = reg_call.n + 1

\* C13 amended: a call without a name registers the function under its
\* __name__ with "_scraper" removed, a call without a priority registers
\* it with priority 10, and a call with a name registers whatever function
\* it is given; the only call that fails is the one with neither function
\* nor name, and it leaves self.scrapers and self.sorted_scrapers as they
\* were.
C13_DefaultsOrUnchanged ==
    [][RegisterStep =>
          IF reg_call'.func = None /\ reg_call'.name = None
          THEN /\ raised' = "AttributeError"
               /\ UNCHANGED <<scrapers, sorted_scrapers, registered, sessions>>
          ELSE /\ raised' = None
               /\ Len(registered') = Len(registered) + 1
               /\ LET sf == registered'[Len(registered')]
                  IN /\ sf.function = reg_call'.func
                     /\ sf.name = IF reg_call'.name # None THEN reg_call'.name
                                  ELSE IF reg_call'.func = "a_scraper" THEN "a"
                                  ELSE "b"
                     /\ ~reg_call'.priority => sf.priority = 10
                     /\ \E k \in DOMAIN scrapers' : scrapers'[k] = sf
                     /\ \E t \in DOMAIN sorted_scrapers' :
                           \E k \in DOMAIN sorted_scrapers'[t] :
                              sorted_scrapers'[t][k] = sf]_vars

\* a call with neither name nor priority was accepted after a call with
\* neither function nor name had failed
C13_Witness ==
    /\ reg_call = [n |-> 2, func |-> "a_scraper", priority |-> FALSE,
                   name |-> None]
    /\ raised = None
    /\ Len(registered) = 1
    /\ registered[1].name = "a"
    /\ registered[1].priority = 10

\* C14: every registered strategy with a session has one session object;
\* whenever a close() call has returned, every session is closed, whether
\* all, some or none of the strategies have one; a closed session is never
\* open again, so a second close() leaves every session closed; and a
\* close() call over strategies without sessions returns at once.
C14_CloseReleasesAll ==
    /\ [](DOMAIN sessions =
             {registered[r].id : r \in {x \in 1..Len(registered) :
                                         "session" \in registered[x].kwargs}})
    /\ []((closes >= 1 /\ cpc = 0) =>
             \A id \in DOMAIN sessions : sessions[id] = "closed")
    /\ []((phase = "closing" /\ cpc = 0) => closes >= 1)
    /\ []((phase = "closing" /\ cpc > 0) => "session" \in scrapers[cpc].kwargs)
    /\ [][\A id \in DOMAIN sessions :
             sessions[id] = "closed" =>
                id \in DOMAIN sessions' /\ sessions'[id] = "closed"]_vars

\* close() has returned twice on a registry whose first strategy has no
\* session and whose second has one, which is closed
C14_Witness ==
    /\ closes = 2
    /\ cpc = 0
    /\ Len(scrapers) = 2
    /\ scrapers[1].kwargs = {}
    /\ scrapers[2].kwargs = {"session"}
    /\ sessions[scrapers[2].id] = "closed"

InFlight(task) == Running(task) \/ task.sp = "parsing"

\* C15: the scrape_parse coroutines alive are those of one window of at
\* most batch_size consecutive records; batch_scrape starts the records of
\* the next window, and tests the limit, only in a step in which every
\* scrape_parse of the current window has ended, so a strategy that never
\* returns keeps its window and every later window from going on.
C15_WindowsSequential ==
    /\ [](phase = "batch" =>
             /\ Cardinality({s \in DOMAIN tasks : InFlight(tasks[s])})
                   <= batch_size
             /\ Len(tasks) <= batch_size
             /\ win % batch_size = 0
             /\ launched = 0..(win + Len(tasks) - 1)
             /\ \A s \in DOMAIN tasks : tasks[s].paper = papers[win + s])
    /\ [][(phase = "batch" /\ (launched' # launched \/ sizes' # sizes)) =>
             /\ \A s \in DOMAIN tasks :
                   ~InFlight(tasks[s]) /\ tasks[s].pc = "done"
             /\ Len(sizes') = Len(sizes) + 1
             /\ launched' # launched => win' = win + batch_size]_vars

\* the second window of a batch is running after the first has ended
C15_Witness ==
    /\ bpc = "gather"
    /\ batch_size = 1
    /\ win = 1
    /\ sizes = <<0>>
    /\ launched = {0, 1}
    /\ tasks[1].pc = "fetching"

\* the strategy a run with rotation index p tries first in a tier
FirstTried(tier, p) == tier[(p % Len(tier)) + 1]

\* C16: the scrape started for the record at position p of papers (window
\* start plus offset in the window) gets i = p, and the first strategy it
\* invokes is the one at index p mod n of the top tier; in every tier of
\* two or more strategies the records at positions p and p + 1 start at
\* different strategies.
C16_RotationByPosition ==
    /\ \A s \in DOMAIN tasks :
          tasks[s].sp # None =>
              LET p == win + s - 1
              IN /\ tasks[s].paper = papers[p + 1]
                 /\ tasks[s].i = p
                 /\ tasks[s].calls # <<>> =>
                       tasks[s].calls[1] =
                           FirstTried(sorted_scrapers[Len(sorted_scrapers)], p).id
    /\ \A t \in DOMAIN sorted_scrapers :
          Len(sorted_scrapers[t]) >= 2 =>
              \A p \in 0..MaxPapers :
                  VisitAt(sorted_scrapers[t], p, 0)
                      # VisitAt(sorted_scrapers[t], p + 1, 0)
    /\ \A s1, s2 \in DOMAIN tasks :
          (/\ tasks[s1].sp # None
           /\ s2 = s1 + 1
           /\ Len(registered) >= 2) =>
              tasks[s1].calls[1] # tasks[s2].calls[1]

\* the record at position 1, alone in the second window, started at the
\* second strategy of a tier of two
C16_Witness ==
    /\ phase = "batch"
    /\ batch_size = 1
    /\ win = 1
    /\ Len(scrapers) = 2
    /\ Len(tasks) = 1
    /\ tasks[1].i = 1
    /\ tasks[1].calls[1] = scrapers[2].id

RegisteredNames == {registered[r].name : r \in 1..Len(registered)}

\* C17: the map handed to the callback at each call, and the map of the
\* run at any time, has one entry for each distinct registered name, each
\* "none", "success" or "failed"; an entry is "none" as long as the run has
\* invoked no strategy of that name.
C17_OutcomeMapShape ==
    \A task \in Tasks :
        /\ \A c \in 1..Len(task.cbs) :
              LET m == task.cbs[c].outcomes
              IN /\ DOMAIN m = RegisteredNames
                 /\ Cardinality(DOMAIN m) = Cardinality(RegisteredNames)
                 /\ \A n \in DOMAIN m : m[n] \in {"none", "success", "failed"}
        /\ DOMAIN task.scrape_result = RegisteredNames
        /\ \A n \in DOMAIN task.scrape_result :
              /\ task.scrape_result[n] \in {"none", "success", "failed"}
              /\ (\A k \in 1..Len(task.calls) :
                     registered[task.calls[k]].name # n)
                    => task.scrape_result[n] = "none"

\* the callback was called after the top tier with one strategy failed and
\* the strategy of the lower tier not attempted
C17_Witness ==
    \E task \in Tasks :
        /\ Len(task.cbs) >= 1
        /\ Cardinality(DOMAIN task.cbs[1].outcomes) = 2
        /\ \E n1, n2 \in DOMAIN task.cbs[1].outcomes :
              /\ task.cbs[1].outcomes[n1] = "failed"
              /\ task.cbs[1].outcomes[n2] = "none"

\* C18: the map a callback received at a tier boundary still has the
\* contents it had at the call, whatever the run has done since.
C18_SnapshotUnchanged ==
    \A task \in Tasks :
        \A c \in 1..Len(task.cbs) :
            task.cbs[c].kind = "tier_cb" =>
                Received(task, c) = task.cbs[c].outcomes

SameRun(s) ==
    /\ s \in DOMAIN tasks
    /\ s \in DOMAIN tasks'
    /\ phase' = phase
    /\ win' = win

\* C19: of the strategies a run has invoked at most one has not finished,
\* and exactly one while the run is suspended at line 83; a run invokes
\* one strategy per step, and only in a step in which it resumes with the
\* result of the previous one, after the test of lines 84-86, or from a
\* callback.
C19_OneInvocationAtATime ==
    /\ [](\A task \in Tasks :
             /\ Len(task.calls) - task.ended \in {0, 1}
             /\ task.pc = "fetching" <=> Len(task.calls) - task.ended = 1)
    /\ [][\A s \in DOMAIN tasks :
             (SameRun(s) /\ tasks'[s].calls # tasks[s].calls) =>
                /\ tasks[s].pc \in {"fetched", "succ_cb", "tier_cb"}
                /\ tasks[s].ended = Len(tasks[s].calls)
                /\ Len(tasks'[s].calls) = Len(tasks[s].calls) + 1
                /\ SubSeq(tasks'[s].calls, 1, Len(tasks[s].calls))
                      = tasks[s].calls]_vars

\* a run is awaiting its second strategy after its first has finished
C19_Witness ==
    \E task \in Tasks :
        /\ task.pc = "fetching"
        /\ Len(task.calls) = 2
        /\ task.ended = 1
        /\ task.t = 1

\* C20: once a run has marked a strategy success, the entry of that
\* strategy stays "success", the strategy stays the last one invoked, and
\* the run does not end other than by returning true.
C20_SuccessIsFinal ==
    \A task \in Tasks :
        task.marks # <<>> =>
            /\ task.scrape_result[registered[task.marks[1]].name] = "success"
            /\ task.calls[Len(task.calls)] = task.marks[1]
            /\ task.pc = "done" => task.ret = "true"

\* C21: with limit = L >= 1 the result never has more than
\* L + batch_size - 1 entries: every window but the last one processed
\* ended with fewer than L entries, and so did the result while a window
\* was running.
C21_LimitOvershoot ==
    (phase = "batch" /\ limit # <<>> /\ limit[1] >= 1) =>
        /\ Cardinality(DOMAIN aggregated) <= limit[1] + batch_size - 1
        /\ \A k \in 1..(Len(sizes) - 1) : sizes[k] < limit[1]
        /\ bpc = "gather" => Cardinality(DOMAIN aggregated) < limit[1]
        /\ \A k \in 1..Len(sizes) :
              sizes[k] <= (IF k = 1 THEN 0 ELSE sizes[k - 1]) + batch_size

\* limit 1, batch_size 2: both records of the only window succeeded and the
\* result has 2 = L + batch_size - 1 entries
C21_Witness ==
    /\ bpc = "returned"
    /\ limit = <<1>>
    /\ batch_size = 2
    /\ sizes = <<2>>
    /\ Cardinality(DOMAIN aggregated) = 2

\* C22: no two runs of a batch are suspended in a strategy (line 83) with
\* the same destination path.
C22_OneWriterPerPath ==
    \A s1, s2 \in DOMAIN tasks :
        (/\ s1 # s2
         /\ tasks[s1].pc = "fetching"
         /\ tasks[s2].pc = "fetching")
            => tasks[s1].path # tasks[s2].path
====
